---- MODULE Spec2Model ----
(***************************************************************************)
(* Connection-lifecycle dispatch of laji-protocols.                        *)
(*                                                                         *)
(* Three engines are modelled, selected by the variable engine:            *)
(*   "sync"    - src/src/discard-sync.rs   (thread per listener, discard)  *)
(*   "daytime" - src/src/daytime-threads.rs (thread per listener / socket) *)
(*   "mio"     - src/src/discard-mio.rs    (single-threaded reactor)       *)
(* A behaviour starts with the builder chain (bind, build); a state is     *)
(* then the position of run, of every worker thread, the accept queues of  *)
(* the bound listeners, the factory mutex, the error channel, the          *)
(* Handshake values and the log of calls made for every connection.        *)
(* HandlerSpec is the closure adapters of the Handler traits on their own. *)
(***************************************************************************)
EXTENDS Naturals, Sequences, FiniteSets

\* ------------------------------------------------------------------ bounds
MaxListeners == 2
MaxConns == 3
MaxCalls == 3

\* ------------------------------------------------------------------ values
NoConn == <<0, 0>>
NoResult == <<"none", NoConn>>
OkResult == <<"ok", NoConn>>
NoErr == <<"none", NoConn>>
NoBind == <<"none", 0, "none", 0>>
NoAddr == <<"none", 0>>
NoShake == <<"none", NoAddr, NoAddr>>
NoSender == <<"none", NoConn, NoAddr>>

HookPcs == {"on_open", "on_request", "on_close"}

VARIABLES
  engine,      \* which engine runs: "sync" (discard-sync), "daytime",
               \*   "mio" (the reactor) or "single" (discard.rs, lib.rs)
  kinds,       \* kinds[l] is "tcp" or "udp": the bound listeners / sockets
  registry,    \* reactor: token -> listener (the Slab of from_tcp)
  arrived,     \* arrived[l]: number of connections / datagrams that have
               \*   arrived on listener l; the k-th of them is <<l, k>>
  cstate,      \* cstate[c]: "none", "pending", "accepted", "closed",
               \*   "acceptErr", "hsErr", "recvErr", "cloneErr"
  pending,     \* pending[l]: accept queue of listener l
  hooks,       \* hooks[c]: the factory/handler calls made for c, in order
  mainPc,      \* position of run
  spawnIdx,    \* thread engines: next listener run spawns a worker for
  runResult,   \* value run returned (NoResult while it has not)
  wpc,         \* wpc[w]: position of worker w (worker w serves listener w)
  wconn,       \* wconn[w]: connection worker w handles (NoConn: none)
  werr,        \* werr[w]: the io::Error worker w carries (NoErr: none)
  lockHolder,  \* worker holding the factory mutex (0: free)
  errq,        \* contents of the mpsc error channel
  sent,        \* every error ever enqueued, in order
  rxAlive,     \* the channel's Receiver has not been dropped
  ready,       \* reactor: tokens with an undelivered readiness event
  events,      \* reactor: events of the current batch not yet iterated
  batch,       \* reactor: listeners named by the current batch
  curL,        \* reactor: listener being drained (0: none)
  cur,         \* reactor and single-listener engine: connection being
               \*   processed (NoConn: none)
  snap,        \* reactor: connections pending when the last poll returned
  late,        \* reactor: connections that arrived on a listener of the
               \*   batch after poll returned and before its would-block
  wb,          \* reactor: listeners that returned would-block this cycle
  cycleServed, \* reactor: connections closed since the last poll returned
  builder,     \* the listeners the Builder (daytime: the unstarted engine)
               \*   holds: <<kind, address>> in the order run will use them
  lastBind,    \* the most recent bind call: <<kind, address, outcome, n>>,
               \*   n the listeners of that kind held when it was called
  hs,          \* hs[w]: the Handshake worker w (0: the reactor) has built
               \*   and not yet passed to on_open
  shakes,      \* shakes[c]: the Handshake on_open received for c
  adapter,     \* handler adapters: shape of the value used as Handler
  calls,       \* handler adapters: <<hook, callable>> for every hook
               \*   invoked, callable 0 being the trait's empty default
  senders      \* daytime: senders[w] is the Sender worker w built for the
               \*   connection it handles (NoSender: none)

connVars == <<arrived, cstate, pending, hooks>>
mainVars == <<mainPc, spawnIdx, runResult>>
workerVars == <<wpc, wconn, werr, lockHolder>>
chanVars == <<errq, sent, rxAlive>>
mioVars == <<ready, events, batch, curL, cur, snap, late, wb, cycleServed>>
auxVars == <<builder, lastBind, adapter, calls>>
shakeVars == <<hs, shakes>>
sendVars == <<senders>>
vars == <<sendVars, auxVars, shakeVars, engine, kinds, registry, connVars, mainVars,
          workerVars, chanVars, mioVars>>

Listeners == DOMAIN kinds
Conns == Listeners \X (1..MaxConns)
\* the single-listener engine has no worker: run serves the listener itself
Workers == DOMAIN wpc
IsThread == engine \in {"sync", "daytime"}

\* ----------------------------------------------------------------- helpers
VacantKeyZero(slab) == 0

\* Slab::vacant_entry().key() of a slab nothing was removed from
VacantKey(slab) == Cardinality(DOMAIN slab)

\* the Slab from_tcp fills: each listener is inserted at the vacant key, the
\* key it was registered under
RECURSIVE FromTcp(_)
FromTcp(n) ==
  IF n = 0 THEN <<>>
  ELSE LET slab == FromTcp(n - 1)
           key == VacantKey(slab)
       IN [t \in DOMAIN slab \cup {key} |-> IF t = key THEN n ELSE slab[t]]

\* the token from_tcp registers the l-th listener under: the vacant key of
\* the slab that holds the listeners before it
Token(l) == VacantKey(FromTcp(l - 1))

RECURSIVE ArrivedUpTo(_)
ArrivedUpTo(l) == IF l = 0 THEN 0 ELSE arrived[l] + ArrivedUpTo(l - 1)

\* number of connections and datagrams that have arrived on all listeners
TotalArrived == ArrivedUpTo(Len(kinds))

RangeOf(s) == {s[i] : i \in DOMAIN s}

\* the orders in which a poll may report the ready tokens
Orders(S) ==
  {s \in [1..Cardinality(S) -> S] : \A i, j \in DOMAIN s : i # j => s[i] # s[j]}

Hook(c, name) == [hooks EXCEPT ![c] = Append(@, name)]

HookSeq(c, names) == [hooks EXCEPT ![c] = @ \o names]

\* ------------------------------------------------------------- addresses
\* the port of listener l: addresses of a kind are numbered as they are bound
PortOf(l) == Cardinality({i \in 1..l : kinds[i] = kinds[l]})

\* the first listener is bound to the wildcard address, as "0.0.0.0:9" of the
\* tests; the others to one interface
BindIp(l) == IF l = 1 THEN "0.0.0.0" ELSE "127.0.0.1"

\* listener.local_addr()
ListenerAddr(l) == <<BindIp(l), PortOf(l)>>

\* the address of the client of connection c
ClientAddr(c) == <<"192.0.2.1", 10 * c[1] + c[2]>>

\* the interface address the client of c connected to
DstIp(c) ==
  IF BindIp(c[1]) # "0.0.0.0" THEN BindIp(c[1])
  ELSE IF c[2] % 2 = 1 THEN "127.0.0.1" ELSE "10.0.0.1"

\* the accepted TcpStream of c: <<peer_addr(), local_addr()>>
Stream(c) == <<ClientAddr(c), <<DstIp(c), PortOf(c[1])>>>>

ReadStreamSwapped(ts) == <<"tcp", ts[2], ts[1]>>

\* Handshake::read_stream / Handshake::read_tcp_stream
ReadStream(ts) == <<"tcp", ts[1], ts[2]>>

\* Handshake::from_udp_addr
FromUdpAddr(origin) == <<"udp", origin, NoAddr>>

\* the bound UdpSocket of listener l and every try_clone of it, named like a
\* connection: <<l, 0>>
UdpSocketOf(l) == <<l, 0>>

\* Sender::new_tcp: the Sender owns the accepted stream of connection c
NewTcp(c) == <<"tcp", c, NoAddr>>

\* Sender::new_udp
NewUdp(socket, target) == <<"udp", socket, target>>

\* where Sender::send puts the bytes: stream.write reaches the stream's
\* peer, socket.send_to(&buf, *target) reaches target
SendDest(sd) == IF sd[1] = "tcp" THEN Stream(sd[2])[1] ELSE sd[3]

\* a listener accepts connections while its socket is open: a thread engine
\* closes it when its worker unwinds or when run returns before spawning it,
\* the reactor when run returns, the single-listener engine when listen does
ListenerOpen(l) ==
  IF engine \in {"mio", "single"} THEN mainPc # "done"
  ELSE /\ wpc[l] # "panicked"
       /\ ~(wpc[l] = "unspawned" /\ mainPc = "done")

\* ------------------------------------------------------------------- init
KindSeqs(e) ==
  {ks \in UNION {[1..n -> {"tcp", "udp"}] : n \in 0..MaxListeners} :
     /\ e # "daytime" => \A i \in DOMAIN ks : ks[i] = "tcp"
     /\ \A i, j \in DOMAIN ks : (i < j /\ ks[j] = "tcp") => ks[i] = "tcp"}

Init ==
  /\ engine \in {"sync", "daytime", "mio", "single"}
  /\ kinds = <<>>
  /\ registry = <<>>
  /\ arrived = <<>>
  /\ cstate = <<>>
  /\ pending = <<>>
  /\ hooks = <<>>
  /\ mainPc = IF engine = "single" THEN "listen" ELSE "builder"
  /\ spawnIdx = 1
  /\ runResult = NoResult
  /\ wpc = <<>>
  /\ wconn = <<>>
  /\ werr = <<>>
  /\ lockHolder = 0
  /\ errq = <<>>
  /\ sent = <<>>
  /\ rxAlive = TRUE
  /\ ready = {}
  /\ events = <<>>
  /\ batch = {}
  /\ curL = 0
  /\ cur = NoConn
  /\ snap = {}
  /\ late = {}
  /\ wb = {}
  /\ cycleServed = {}
  /\ builder = <<>>
  /\ lastBind = NoBind
  /\ hs = <<>>
  /\ shakes = <<>>
  /\ senders = <<>>
  /\ adapter = "none"
  /\ calls = <<>>

\* ---------------------------------------------------------------- builder
TcpOf(b) == SelectSeq(b, LAMBDA x : x[1] = "tcp")
UdpOf(b) == SelectSeq(b, LAMBDA x : x[1] = "udp")

\* number of listeners of kind k the builder holds
Held(b, k) == Len(SelectSeq(b, LAMBDA x : x[1] = k))

\* self.tcp.push(listener) / self.udp.push(socket): run serves tcp first
Push(b, k, a) ==
  IF k = "tcp" THEN TcpOf(b) \o <<<<k, a>>>> \o UdpOf(b)
  ELSE b \o <<<<k, a>>>>

KindsOf(b) == [l \in DOMAIN b |-> b[l][1]]

BindOutcomeLazy(b, k, a, osOk) == "ok"

\* TcpListener::bind(addr)? / UdpSocket::bind(addr)?: the address is bound by
\* the call itself, which fails when a listener already holds it
BindOutcome(b, k, a, osOk) ==
  IF <<k, a>> \in RangeOf(b) \/ ~osOk THEN "err" ELSE "ok"

BuilderAfterFailedBindKept(b) == b

\* bind takes self by value: on the ? return the builder is dropped, and every
\* listener it holds is closed with it
BuilderAfterFailedBind(b) == <<>>

\* Builder::bind, LajiDaytime::bind_tcp, LajiDaytime::bind_udp.  Addresses are
\* named in the order they are first bound: a call names an address the
\* builder already holds or the next one
Bind(k, a) ==
  /\ mainPc = "builder"
  /\ KindsOf(Push(builder, k, a)) \in KindSeqs(engine)
  /\ a \in 1..(Held(builder, k) + 1)
  /\ \E osOk \in BOOLEAN :
       LET outcome == BindOutcome(builder, k, a, osOk) IN
         /\ lastBind' = <<k, a, outcome, Held(builder, k)>>
         /\ IF outcome = "ok"
              THEN /\ builder' = Push(builder, k, a)
                   /\ mainPc' = "builder"
              ELSE /\ builder' = BuilderAfterFailedBind(builder)
                   /\ mainPc' = "failed"
  /\ UNCHANGED <<sendVars, adapter, calls, shakeVars, engine, kinds, registry, connVars,
                 spawnIdx, runResult, workerVars, chanVars, mioVars>>

\* the caller starts over with Builder::new() / LajiDaytime::new(factory)
NewBuilder ==
  /\ mainPc = "failed"
  /\ mainPc' = "builder"
  /\ builder' = <<>>
  /\ lastBind' = NoBind
  /\ UNCHANGED <<sendVars, adapter, calls, shakeVars, engine, kinds, registry, connVars,
                 spawnIdx, runResult, workerVars, chanVars, mioVars>>

\* Builder::build; for the reactor LajiDiscard::from_tcp, whose Poll::new()?
\* and poll.register(..)? may fail; for daytime the entry of run
Build ==
  /\ mainPc = "builder"
  /\ lastBind' = NoBind
  /\ builder' = <<>>
  /\ \E ok \in BOOLEAN :
       IF ok \/ engine # "mio"
         THEN /\ ok
              /\ kinds' = KindsOf(builder)
              /\ registry' = IF engine = "mio" THEN FromTcp(Len(builder))
                             ELSE <<>>
              /\ arrived' = [l \in DOMAIN builder |-> 0]
              /\ cstate' = [c \in (DOMAIN builder) \X (1..MaxConns) |-> "none"]
              /\ pending' = [l \in DOMAIN builder |-> <<>>]
              /\ hooks' = [c \in (DOMAIN builder) \X (1..MaxConns) |-> <<>>]
              /\ shakes' = [c \in (DOMAIN builder) \X (1..MaxConns) |-> NoShake]
              /\ hs' = [w \in 0..Len(builder) |-> NoShake]
              /\ senders' = [w \in DOMAIN builder |-> NoSender]
              /\ wpc' = [w \in DOMAIN builder |-> "unspawned"]
              /\ wconn' = [w \in DOMAIN builder |-> NoConn]
              /\ werr' = [w \in DOMAIN builder |-> NoErr]
              /\ mainPc' = IF engine = "mio" THEN "poll" ELSE "spawn"
         ELSE /\ mainPc' = "failed"
              /\ UNCHANGED <<sendVars, shakeVars, kinds, registry, connVars, wpc, wconn,
                             werr>>
  /\ UNCHANGED <<adapter, calls, engine, spawnIdx, runResult, lockHolder,
                 chanVars, mioVars>>

\* ------------------------------------------------------------ environment
\* a client connects to (or sends a datagram to) listener l
Arrive(l) ==
  /\ TotalArrived < MaxConns
  /\ ListenerOpen(l)
  /\ LET c == <<l, arrived[l] + 1>> IN
       /\ arrived' = [arrived EXCEPT ![l] = @ + 1]
       /\ cstate' = [cstate EXCEPT ![c] = "pending"]
       /\ pending' = [pending EXCEPT ![l] = Append(@, c)]
       /\ late' = IF engine = "mio" /\ mainPc # "poll" /\ l \in batch
                       /\ l \notin wb
                    THEN late \cup {c} ELSE late
  /\ ready' = IF engine = "mio" /\ pending[l] = <<>>
                THEN ready \cup {Token(l)} ELSE ready
  /\ UNCHANGED <<sendVars, auxVars, shakeVars, engine, kinds, registry, hooks, mainVars, workerVars, chanVars,
                 events, batch, curL, cur, snap, wb, cycleServed>>

\* ------------------------------------------------- thread engines: run
LiveSendersWorkersOnly ==
  Cardinality({w \in Workers : wpc[w] \notin {"unspawned", "panicked"}})

\* the channel's senders: run's own err_tx plus one clone per live worker
LiveSenders ==
  1 + Cardinality({w \in Workers : wpc[w] \notin {"unspawned", "panicked"}})

\* one iteration of the spawn loop; discard-sync clones the listener first
RunSpawn ==
  /\ IsThread
  /\ mainPc = "spawn"
  /\ spawnIdx <= Len(kinds)
  /\ \E cloned \in BOOLEAN :
       IF cloned \/ engine = "daytime"
         THEN /\ cloned
              /\ wpc' = [wpc EXCEPT ![spawnIdx] = "accept"]
              /\ spawnIdx' = spawnIdx + 1
              /\ UNCHANGED <<mainPc, runResult>>
         ELSE /\ runResult' = <<"clone", <<spawnIdx, 0>>>>
              /\ mainPc' = "return"
              /\ UNCHANGED <<wpc, spawnIdx>>
  /\ UNCHANGED <<sendVars, auxVars, shakeVars, engine, kinds, registry, connVars, wconn, werr, lockHolder,
                 chanVars, mioVars>>

RunSpawnDone ==
  /\ IsThread
  /\ mainPc = "spawn"
  /\ spawnIdx > Len(kinds)
  /\ mainPc' = "recv"
  /\ UNCHANGED <<sendVars, auxVars, shakeVars, engine, kinds, registry, connVars, spawnIdx, runResult,
                 workerVars, chanVars, mioVars>>

\* while let Ok(err) = err_rx.recv() { return Err(err); } Ok(())
RunRecv ==
  /\ IsThread
  /\ mainPc = "recv"
  /\ errq # <<>> \/ LiveSenders = 0
  /\ IF errq # <<>>
       THEN /\ runResult' = Head(errq)
            /\ errq' = Tail(errq)
       ELSE /\ runResult' = OkResult
            /\ errq' = errq
  /\ mainPc' = "return"
  /\ UNCHANGED <<sendVars, auxVars, shakeVars, engine, kinds, registry, connVars, spawnIdx, workerVars,
                 sent, rxAlive, mioVars>>

\* run returns: its locals, the Receiver among them, are dropped
RunReturn ==
  /\ IsThread
  /\ mainPc = "return"
  /\ mainPc' = "done"
  /\ rxAlive' = FALSE
  /\ UNCHANGED <<sendVars, auxVars, shakeVars, engine, kinds, registry, connVars, spawnIdx, runResult,
                 workerVars, errq, sent, mioVars>>

\* --------------------------------------------- thread engines: workers
\* where a worker goes after incoming().next() / recv_from
AfterAccept(e, k, ok) ==
  IF e = "sync" THEN "lock"
  ELSE IF ~ok THEN "send"
  ELSE IF k = "tcp" THEN "read_stream" ELSE "try_clone"

AcceptErrKind(k) == IF k = "tcp" THEN "accept" ELSE "recv"

WAccept(w) ==
  /\ IsThread
  /\ wpc[w] = "accept"
  /\ pending[w] # <<>>
  /\ LET c == Head(pending[w]) IN
     \E ok \in BOOLEAN :
       /\ pending' = [pending EXCEPT ![w] = Tail(@)]
       /\ wconn' = [wconn EXCEPT ![w] = c]
       /\ cstate' = [cstate EXCEPT ![c] =
                       IF ok THEN "accepted"
                       ELSE IF kinds[w] = "tcp" THEN "acceptErr" ELSE "recvErr"]
       /\ werr' = [werr EXCEPT ![w] =
                     IF ok THEN NoErr ELSE <<AcceptErrKind(kinds[w]), c>>]
       /\ wpc' = [wpc EXCEPT ![w] = AfterAccept(engine, kinds[w], ok)]
       /\ hs' = IF ok /\ kinds[w] = "udp"
                  THEN [hs EXCEPT ![w] = FromUdpAddr(ClientAddr(c))]
                  ELSE hs
  /\ UNCHANGED <<sendVars, auxVars, shakes, engine, kinds, registry, arrived, hooks, mainVars,
                 lockHolder, chanVars, mioVars>>

CanLockUnguarded(holder) == TRUE

\* factory.lock().unwrap()
CanLock(holder) == holder = 0

WLock(w) ==
  /\ IsThread
  /\ wpc[w] = "lock"
  /\ CanLock(lockHolder)
  /\ lockHolder' = w
  /\ wpc' = [wpc EXCEPT ![w] = "connection_made"]
  /\ UNCHANGED <<sendVars, auxVars, shakeVars, engine, kinds, registry, connVars, mainVars, wconn, werr,
                 chanVars, mioVars>>

HolderAfterConnectionMadeKept(w) == w

\* the MutexGuard is a temporary of the let statement: dropped at its end
HolderAfterConnectionMade(w) == 0

AfterConnectionMade(e) == IF e = "sync" THEN "read_stream" ELSE "on_open"

WConnectionMade(w) ==
  /\ IsThread
  /\ wpc[w] = "connection_made"
  /\ hooks' = Hook(wconn[w], "connection_made")
  /\ lockHolder' = HolderAfterConnectionMade(w)
  /\ wpc' = [wpc EXCEPT ![w] = AfterConnectionMade(engine)]
  /\ UNCHANGED <<sendVars, auxVars, shakeVars, engine, kinds, registry, arrived, cstate, pending,
                 mainVars, wconn, werr, chanVars, mioVars>>

AfterReadStreamSkipOpen(e) == "on_close"

\* let stream = stream?; Handshake::read_stream(&stream)?
AfterReadStream(e) == IF e = "sync" THEN "on_open" ELSE "lock"

WReadStream(w) ==
  /\ IsThread
  /\ wpc[w] = "read_stream"
  /\ IF werr[w] # NoErr
       THEN /\ wpc' = [wpc EXCEPT ![w] = "send"]
            /\ UNCHANGED <<cstate, werr, hs, hooks, senders>>
       ELSE \E ok \in BOOLEAN :
              IF ok
                THEN /\ wpc' = [wpc EXCEPT ![w] = AfterReadStream(engine)]
                     /\ hs' = [hs EXCEPT ![w] = ReadStream(Stream(wconn[w]))]
                     /\ senders' = IF engine = "daytime"
                                      THEN [senders EXCEPT ![w] =
                                              NewTcp(wconn[w])]
                                      ELSE senders
                     /\ UNCHANGED <<cstate, werr, hooks>>
                ELSE /\ wpc' = [wpc EXCEPT ![w] = "send"]
                     /\ cstate' = [cstate EXCEPT ![wconn[w]] = "hsErr"]
                     /\ werr' = [werr EXCEPT ![w] = <<"handshake", wconn[w]>>]
                     /\ hooks' = Hook(wconn[w], "drop")
                     /\ UNCHANGED <<hs, senders>>
  /\ UNCHANGED <<auxVars, shakes, engine, kinds, registry, arrived, pending, mainVars,
                 wconn, lockHolder, chanVars, mioVars>>

\* daytime UDP worker: Sender::new_udp(socket.try_clone()?, addr)
WTryClone(w) ==
  /\ engine = "daytime"
  /\ wpc[w] = "try_clone"
  /\ \E ok \in BOOLEAN :
       IF ok
         THEN /\ wpc' = [wpc EXCEPT ![w] = "lock"]
              /\ senders' = [senders EXCEPT ![w] =
                               NewUdp(UdpSocketOf(w), ClientAddr(wconn[w]))]
              /\ UNCHANGED <<cstate, werr, hs>>
         ELSE /\ wpc' = [wpc EXCEPT ![w] = "send"]
              /\ cstate' = [cstate EXCEPT ![wconn[w]] = "cloneErr"]
              /\ werr' = [werr EXCEPT ![w] = <<"udpclone", wconn[w]>>]
              /\ hs' = [hs EXCEPT ![w] = NoShake]
              /\ UNCHANGED senders
  /\ UNCHANGED <<auxVars, shakes, engine, kinds, registry, arrived, pending, hooks, mainVars,
                 wconn, lockHolder, chanVars, mioVars>>

AfterOpenNoClose(e) == "accept"

AfterOpenSkipRequest(e) == "on_close"

AfterOpen(e) == IF e = "daytime" THEN "on_request" ELSE "on_close"

OpenEventsKeepStream(e) == <<"on_open">>

\* the discard engines drop(stream) between on_open and on_close; daytime
\* moved the stream into the Sender, which the handler owns until the worker
\* closure drops the handler after on_close
OpenEvents(e) == IF e = "daytime" THEN <<"on_open">> ELSE <<"on_open", "drop">>
CloseEvents(e) == IF e = "daytime" THEN <<"on_close", "drop">> ELSE <<"on_close">>

\* the test handlers write the time string through the Sender in on_request
RequestEvents == <<"on_request", "write">>

WOnOpen(w) ==
  /\ IsThread
  /\ wpc[w] = "on_open"
  /\ hooks' = HookSeq(wconn[w], OpenEvents(engine))
  /\ shakes' = [shakes EXCEPT ![wconn[w]] = hs[w]]
  /\ hs' = [hs EXCEPT ![w] = NoShake]
  /\ wpc' = [wpc EXCEPT ![w] = AfterOpen(engine)]
  /\ UNCHANGED <<sendVars, auxVars, engine, kinds, registry, arrived, cstate, pending,
                 mainVars, wconn, werr, lockHolder, chanVars, mioVars>>

WOnRequest(w) ==
  /\ engine = "daytime"
  /\ wpc[w] = "on_request"
  /\ hooks' = HookSeq(wconn[w], RequestEvents)
  /\ wpc' = [wpc EXCEPT ![w] = "on_close"]
  /\ UNCHANGED <<sendVars, auxVars, shakeVars, engine, kinds, registry, arrived, cstate, pending,
                 mainVars, wconn, werr, lockHolder, chanVars, mioVars>>

WOnClose(w) ==
  /\ IsThread
  /\ wpc[w] = "on_close"
  /\ hooks' = HookSeq(wconn[w], CloseEvents(engine))
  /\ cstate' = [cstate EXCEPT ![wconn[w]] = "closed"]
  /\ wconn' = [wconn EXCEPT ![w] = NoConn]
  /\ wpc' = [wpc EXCEPT ![w] = "accept"]
  /\ senders' = IF engine = "daytime"
                  THEN [senders EXCEPT ![w] = NoSender] ELSE senders
  /\ UNCHANGED <<auxVars, shakeVars, engine, kinds, registry, arrived, pending, mainVars, werr,
                 lockHolder, chanVars, mioVars>>

\* .unwrap_or_else(|e| err_tx.send(e).unwrap()): send fails once the Receiver
\* is gone, and the unwrap then panics the worker thread
WSend(w) ==
  /\ IsThread
  /\ wpc[w] = "send"
  /\ IF rxAlive
       THEN /\ errq' = Append(errq, werr[w])
            /\ sent' = Append(sent, werr[w])
            /\ wpc' = [wpc EXCEPT ![w] = "accept"]
       ELSE /\ wpc' = [wpc EXCEPT ![w] = "panicked"]
            /\ UNCHANGED <<errq, sent>>
  /\ wconn' = [wconn EXCEPT ![w] = NoConn]
  /\ werr' = [werr EXCEPT ![w] = NoErr]
  /\ UNCHANGED <<sendVars, auxVars, shakeVars, engine, kinds, registry, connVars, mainVars, lockHolder,
                 rxAlive, mioVars>>

WorkerStep(w) ==
  \/ WAccept(w)
  \/ WLock(w)
  \/ WConnectionMade(w)
  \/ WReadStream(w)
  \/ WTryClone(w)
  \/ WOnOpen(w)
  \/ WOnRequest(w)
  \/ WOnClose(w)
  \/ WSend(w)

\* ---------------------------------------------------------------- reactor
\* self.poll.poll(&mut events, None)?: blocks until some registered listener
\* has an undelivered edge; the edges are consumed by the delivery
MioPoll ==
  /\ engine = "mio"
  /\ mainPc = "poll"
  /\ \E ok \in BOOLEAN :
       IF ok
         THEN /\ ready # {}
              /\ \E order \in Orders(ready) : events' = order
              /\ ready' = {}
              /\ batch' = {registry[t] : t \in ready \cap DOMAIN registry}
              /\ snap' = UNION {RangeOf(pending[registry[t]]) :
                                  t \in ready \cap DOMAIN registry}
              /\ late' = {}
              /\ wb' = {}
              /\ cycleServed' = {}
              /\ mainPc' = "event"
              /\ UNCHANGED runResult
         ELSE /\ runResult' = <<"poll", NoConn>>
              /\ mainPc' = "done"
              /\ UNCHANGED <<ready, events, batch, snap, late, wb, cycleServed>>
  /\ UNCHANGED <<sendVars, auxVars, shakeVars, engine, kinds, registry, connVars, spawnIdx, workerVars,
                 chanVars, curL, cur>>

\* a token no listener is registered under: a key the Slab does not hold
StrayToken == Cardinality(DOMAIN registry)

\* the multiplexer reports a readiness event under a token that resolves to
\* no listener
StrayEvent ==
  /\ engine = "mio"
  /\ mainPc \notin {"builder", "failed", "done"}
  /\ StrayToken \notin ready
  /\ ready' = ready \cup {StrayToken}
  /\ UNCHANGED <<sendVars, auxVars, shakeVars, engine, kinds, registry, connVars, mainVars,
                 workerVars, chanVars, events, batch, curL, cur, snap, late,
                 wb, cycleServed>>

AfterUnknownTokenBreak == "poll"

\* if let Some(listener) = .. has no else: the for loop takes the next event
AfterUnknownToken == "event"

\* for event in &events { if let Some(listener) = self.listeners.get(token) ..
MioNextEvent ==
  /\ engine = "mio"
  /\ mainPc = "event"
  /\ IF events = <<>>
       THEN /\ mainPc' = "poll"
            /\ UNCHANGED <<events, curL>>
       ELSE /\ events' = Tail(events)
            /\ IF Head(events) \in DOMAIN registry
                 THEN /\ curL' = registry[Head(events)]
                      /\ mainPc' = "accept"
                 ELSE /\ mainPc' = AfterUnknownToken
                      /\ UNCHANGED curL
  /\ UNCHANGED <<sendVars, auxVars, shakeVars, engine, kinds, registry, connVars, spawnIdx, runResult,
                 workerVars, chanVars, ready, batch, cur, snap, late, wb,
                 cycleServed>>

\* the result of listener.accept() on a non-blocking listener
AcceptResults(l) ==
  IF pending[l] = <<>> THEN {<<"wouldblock", NoConn>>}
  ELSE {<<"ok", Head(pending[l])>>, <<"accept", Head(pending[l])>>}

BreaksDrainNever(r) == FALSE

\* Err(ref e) if e.kind() == io::ErrorKind::WouldBlock => break
BreaksDrain(r) == r[1] = "wouldblock"

MioAccept ==
  /\ engine = "mio"
  /\ mainPc = "accept"
  /\ \E r \in AcceptResults(curL) :
       IF r[1] = "ok"
         THEN /\ pending' = [pending EXCEPT ![curL] = Tail(@)]
              /\ cstate' = [cstate EXCEPT ![r[2]] = "accepted"]
              /\ cur' = r[2]
              /\ mainPc' = "connection_made"
              /\ UNCHANGED <<runResult, wb, curL>>
         ELSE IF BreaksDrain(r)
           THEN /\ wb' = wb \cup {curL}
                /\ curL' = 0
                /\ mainPc' = "event"
                /\ UNCHANGED <<pending, cstate, cur, runResult>>
           ELSE /\ pending' = IF pending[curL] = <<>> THEN pending
                              ELSE [pending EXCEPT ![curL] = Tail(@)]
                /\ cstate' = IF r[2] = NoConn THEN cstate
                             ELSE [cstate EXCEPT ![r[2]] = "acceptErr"]
                /\ runResult' = r
                /\ mainPc' = "done"
                /\ UNCHANGED <<cur, wb, curL>>
  /\ UNCHANGED <<sendVars, auxVars, shakeVars, engine, kinds, registry, arrived, hooks, spawnIdx,
                 workerVars, chanVars, ready, events, batch, snap, late,
                 cycleServed>>

MioConnectionMade ==
  /\ engine = "mio"
  /\ mainPc = "connection_made"
  /\ hooks' = Hook(cur, "connection_made")
  /\ mainPc' = "read_stream"
  /\ UNCHANGED <<sendVars, auxVars, shakeVars, engine, kinds, registry, arrived, cstate, pending,
                 spawnIdx, runResult, workerVars, chanVars, mioVars>>

\* Handshake::read_stream(&stream)? ; the ? of run returns the error
MioReadStream ==
  /\ engine = "mio"
  /\ mainPc = "read_stream"
  /\ \E ok \in BOOLEAN :
       IF ok
         THEN /\ mainPc' = "on_open"
              /\ hs' = [hs EXCEPT ![0] = ReadStream(Stream(cur))]
              /\ UNCHANGED <<cstate, runResult, hooks>>
         ELSE /\ cstate' = [cstate EXCEPT ![cur] = "hsErr"]
              /\ runResult' = <<"handshake", cur>>
              /\ hooks' = Hook(cur, "drop")
              /\ mainPc' = "done"
              /\ hs' = hs
  /\ UNCHANGED <<sendVars, auxVars, shakes, engine, kinds, registry, arrived, pending,
                 spawnIdx, workerVars, chanVars, mioVars>>

MioOnOpen ==
  /\ engine = "mio"
  /\ mainPc = "on_open"
  /\ hooks' = HookSeq(cur, OpenEvents(engine))
  /\ shakes' = [shakes EXCEPT ![cur] = hs[0]]
  /\ hs' = [hs EXCEPT ![0] = NoShake]
  /\ mainPc' = AfterOpen(engine)
  /\ UNCHANGED <<sendVars, auxVars, engine, kinds, registry, arrived, cstate, pending,
                 spawnIdx, runResult, workerVars, chanVars, mioVars>>

AfterStreamWait == "poll"

AfterStreamOnce == "event"

\* process_one_stream returned Ok: the inner loop calls accept again
AfterStream == "accept"

MioOnClose ==
  /\ engine = "mio"
  /\ mainPc = "on_close"
  /\ hooks' = HookSeq(cur, CloseEvents(engine))
  /\ cstate' = [cstate EXCEPT ![cur] = "closed"]
  /\ cycleServed' = cycleServed \cup {cur}
  /\ cur' = NoConn
  /\ mainPc' = AfterStream
  /\ UNCHANGED <<sendVars, auxVars, shakeVars, engine, kinds, registry, arrived, pending, spawnIdx,
                 runResult, workerVars, chanVars, ready, events, batch, curL,
                 snap, late, wb>>

MioStep ==
  \/ MioPoll
  \/ MioNextEvent
  \/ MioAccept
  \/ MioConnectionMade
  \/ MioReadStream
  \/ MioOnOpen
  \/ MioOnClose

\* --------------------------------------------- single-listener engine
\* listen(addr, factory) of discard.rs and lib.rs: LajiDiscard::bind, whose
\* TcpListener::bind(addr)? may fail (listen then returns without calling
\* run), then run on the one listener
SingleBind ==
  /\ engine = "single"
  /\ mainPc = "listen"
  /\ \E ok \in BOOLEAN :
       IF ok
         THEN /\ kinds' = <<"tcp">>
              /\ arrived' = [l \in {1} |-> 0]
              /\ cstate' = [c \in {1} \X (1..MaxConns) |-> "none"]
              /\ pending' = [l \in {1} |-> <<>>]
              /\ hooks' = [c \in {1} \X (1..MaxConns) |-> <<>>]
              /\ shakes' = [c \in {1} \X (1..MaxConns) |-> NoShake]
              /\ hs' = [w \in {0} |-> NoShake]
              /\ mainPc' = "accept"
         ELSE /\ mainPc' = "unbound"
              /\ UNCHANGED <<shakeVars, kinds, connVars>>
  /\ UNCHANGED <<sendVars, auxVars, engine, registry, spawnIdx, runResult,
                 workerVars, chanVars, mioVars>>

\* for stream in self.tcp.incoming(): blocks until a connection attempt is
\* there; the item is Ok(stream) or Err(e)
SingleAccept ==
  /\ engine = "single"
  /\ mainPc = "accept"
  /\ pending[1] # <<>>
  /\ \E ok \in BOOLEAN :
       cstate' = [cstate EXCEPT ![Head(pending[1])] =
                    IF ok THEN "accepted" ELSE "acceptErr"]
  /\ cur' = Head(pending[1])
  /\ pending' = [pending EXCEPT ![1] = Tail(@)]
  /\ mainPc' = "connection_made"
  /\ UNCHANGED <<sendVars, auxVars, shakeVars, engine, kinds, registry, arrived,
                 hooks, spawnIdx, runResult, workerVars, chanVars, ready,
                 events, batch, curL, snap, late, wb, cycleServed>>

\* let mut handler = self.factory.connection_made(); it comes before stream?
SingleConnectionMade ==
  /\ engine = "single"
  /\ mainPc = "connection_made"
  /\ hooks' = Hook(cur, "connection_made")
  /\ mainPc' = "read_stream"
  /\ UNCHANGED <<sendVars, auxVars, shakeVars, engine, kinds, registry, arrived,
                 cstate, pending, spawnIdx, runResult, workerVars, chanVars,
                 mioVars>>

AfterSingleErrorNextStream == "accept"

\* where run is after a ? took the error branch: it has returned
AfterSingleError == "done"

\* let stream = stream?; then Handshake::read_stream(&stream)?
SingleReadStream ==
  /\ engine = "single"
  /\ mainPc = "read_stream"
  /\ IF cstate[cur] = "acceptErr"
       THEN /\ runResult' = <<"accept", cur>>
            /\ mainPc' = AfterSingleError
            /\ UNCHANGED <<cstate, hooks, hs>>
       ELSE \E ok \in BOOLEAN :
              IF ok
                THEN /\ hs' = [hs EXCEPT ![0] = ReadStream(Stream(cur))]
                     /\ mainPc' = "on_open"
                     /\ UNCHANGED <<cstate, hooks, runResult>>
                ELSE /\ cstate' = [cstate EXCEPT ![cur] = "hsErr"]
                     /\ hooks' = Hook(cur, "drop")
                     /\ runResult' = <<"handshake", cur>>
                     /\ mainPc' = AfterSingleError
                     /\ hs' = hs
  /\ UNCHANGED <<sendVars, auxVars, shakes, engine, kinds, registry, arrived,
                 pending, spawnIdx, workerVars, chanVars, mioVars>>

\* handler.on_open(..); drop(stream);
SingleOnOpen ==
  /\ engine = "single"
  /\ mainPc = "on_open"
  /\ hooks' = HookSeq(cur, OpenEvents(engine))
  /\ shakes' = [shakes EXCEPT ![cur] = hs[0]]
  /\ hs' = [hs EXCEPT ![0] = NoShake]
  /\ mainPc' = AfterOpen(engine)
  /\ UNCHANGED <<sendVars, auxVars, engine, kinds, registry, arrived, cstate,
                 pending, spawnIdx, runResult, workerVars, chanVars, mioVars>>

\* handler.on_close(); the loop takes the next item of incoming()
SingleOnClose ==
  /\ engine = "single"
  /\ mainPc = "on_close"
  /\ hooks' = HookSeq(cur, CloseEvents(engine))
  /\ cstate' = [cstate EXCEPT ![cur] = "closed"]
  /\ cur' = NoConn
  /\ mainPc' = "accept"
  /\ UNCHANGED <<sendVars, auxVars, shakeVars, engine, kinds, registry, arrived,
                 pending, spawnIdx, runResult, workerVars, chanVars, ready,
                 events, batch, curL, snap, late, wb, cycleServed>>

SingleStep ==
  \/ SingleBind
  \/ SingleAccept
  \/ SingleConnectionMade
  \/ SingleReadStream
  \/ SingleOnOpen
  \/ SingleOnClose

\* ------------------------------------------------------------ specification
BuilderStep ==
  \/ \E k \in {"tcp", "udp"}, a \in 1..MaxListeners : Bind(k, a)
  \/ NewBuilder
  \/ Build

RunStep ==
  \/ RunSpawn
  \/ RunSpawnDone
  \/ RunRecv
  \/ RunReturn

Next ==
  \/ BuilderStep
  \/ \E l \in Listeners : Arrive(l)
  \/ RunStep
  \/ \E w \in Workers : WorkerStep(w)
  \/ StrayEvent
  \/ MioStep
  \/ SingleStep

Spec == Init /\ [][Next]_vars

\* the reactor alone, with a multiplexer that reports registered tokens only;
\* its single thread keeps executing whenever it is not blocked in poll, while
\* no I/O error is ever required to happen
MioInit == Init /\ engine = "mio"

MioProgress == MioStep /\ runResult' = NoResult

MioNext ==
  \/ BuilderStep
  \/ \E l \in Listeners : Arrive(l)
  \/ MioStep

MioFairSpec == MioInit /\ [][MioNext]_vars /\ WF_vars(MioProgress)

\* ------------------------------------------------------- handler adapters
\* the modules that implement Handler for closures: daytime-threads.rs,
\* discard.rs, discard-sync.rs, discard-mio.rs and lib.rs
AdapterModules == {"daytime", "discard", "sync", "mio", "lib"}

\* the closure shapes a module implements Handler for
Shapes(m) == IF m \in {"daytime", "discard"} THEN {"fn", "pair"} ELSE {"fn"}

\* the hooks of the module's Handler trait
HooksOf(m) ==
  IF m = "daytime" THEN {"on_open", "on_request", "on_close"}
  ELSE {"on_open", "on_close"}

DispatchAsOpenClose(m, sh, h) ==
  IF sh = "fn" THEN (IF h = "on_request" THEN 1 ELSE 0)
  ELSE IF h = "on_open" THEN 1 ELSE IF h = "on_close" THEN 2 ELSE 0

\* the callable hook h of an adapter of shape sh runs: 1 for the closure or
\* the first of the pair, 2 for the second, 0 for the trait's empty default
Dispatch(m, sh, h) ==
  IF m = "daytime"
    THEN IF sh = "fn" THEN (IF h = "on_request" THEN 1 ELSE 0)
         ELSE IF h = "on_open" THEN 1 ELSE IF h = "on_request" THEN 2 ELSE 0
    ELSE IF sh = "fn" THEN (IF h = "on_open" THEN 1 ELSE 0)
         ELSE IF h = "on_open" THEN 1 ELSE IF h = "on_close" THEN 2 ELSE 0

HandlerInit ==
  /\ engine \in AdapterModules
  /\ adapter \in Shapes(engine)
  /\ calls = <<>>
  /\ mainPc = "handler"
  /\ kinds = <<>>
  /\ registry = <<>>
  /\ arrived = <<>>
  /\ cstate = <<>>
  /\ pending = <<>>
  /\ hooks = <<>>
  /\ spawnIdx = 1
  /\ runResult = NoResult
  /\ wpc = <<>>
  /\ wconn = <<>>
  /\ werr = <<>>
  /\ lockHolder = 0
  /\ errq = <<>>
  /\ sent = <<>>
  /\ rxAlive = TRUE
  /\ ready = {}
  /\ events = <<>>
  /\ batch = {}
  /\ curL = 0
  /\ cur = NoConn
  /\ snap = {}
  /\ late = {}
  /\ wb = {}
  /\ cycleServed = {}
  /\ builder = <<>>
  /\ lastBind = NoBind
  /\ hs = <<>>
  /\ shakes = <<>>
  /\ senders = <<>>

\* hook h is invoked on the adapter
Invoke(h) ==
  /\ mainPc = "handler"
  /\ h \in HooksOf(engine)
  /\ Len(calls) < MaxCalls
  /\ calls' = Append(calls, <<h, Dispatch(engine, adapter, h)>>)
  /\ UNCHANGED <<sendVars, builder, lastBind, adapter, shakeVars, engine, kinds,
                 registry, connVars, mainVars, workerVars, chanVars, mioVars>>

HandlerNext == \E h \in HookPcs : Invoke(h)

HandlerSpec == HandlerInit /\ [][HandlerNext]_vars

\* no accept, handshake retrieval, receive or clone has failed
NoIoFailure ==
  /\ runResult[1] # "clone"
  /\ \A c \in Conns : cstate[c] \notin {"acceptErr", "hsErr", "recvErr", "cloneErr"}

\* the thread engines up to their first I/O failure; the scheduler keeps
\* running run and every worker thread that can take a step, while no I/O
\* failure is ever required to happen
ThreadInit == Init /\ IsThread

RunProgress == (RunSpawn \/ RunSpawnDone) /\ NoIoFailure'

WorkerProgress(w) == w \in Workers /\ WorkerStep(w) /\ NoIoFailure'

ThreadNext ==
  \/ NoIoFailure /\ BuilderStep
  \/ NoIoFailure /\ \E l \in Listeners : Arrive(l)
  \/ NoIoFailure /\ RunSpawn
  \/ NoIoFailure /\ RunSpawnDone
  \/ NoIoFailure /\ \E w \in Workers : WorkerStep(w)

ThreadFairSpec ==
  /\ ThreadInit
  /\ [][ThreadNext]_vars
  /\ WF_vars(RunProgress)
  /\ \A w \in 1..MaxListeners : WF_vars(WorkerProgress(w))

\* ================================================================== claims
Lifecycle(c) == SelectSeq(hooks[c], LAMBDA h : h \in HookPcs)

\* on_open, then any number of on_request, then on_close
WellFormed(s) ==
  /\ Len(s) >= 2
  /\ s[1] = "on_open"
  /\ s[Len(s)] = "on_close"
  /\ \A i \in 2..(Len(s) - 1) : s[i] = "on_request"

\* a lifecycle that has started and not yet reached on_close
OpenPrefix(s) ==
  \A i \in DOMAIN s : IF i = 1 THEN s[i] = "on_open" ELSE s[i] = "on_request"

\* connection c is in the hands of a worker, or of the reactor or the
\* single-listener loop, that is between its accept and the end of its
\* handling of c
InFlight(c) ==
  IF ~IsThread
    THEN cur = c /\ mainPc \in {"connection_made", "read_stream"} \cup HookPcs
    ELSE /\ wconn[c[1]] = c
         /\ wpc[c[1]] \in {"lock", "connection_made", "read_stream",
                             "try_clone"} \cup HookPcs

Failed(c) == cstate[c] \in {"acceptErr", "hsErr", "recvErr", "cloneErr"}

\* C1 (as stated): every accepted connection or datagram the engine has
\* finished with, a stream whose handshake retrieval failed included, has
\* received on_open once, then on_request calls, then on_close once.
C1_LifecycleAlways ==
  \A c \in Conns :
    cstate[c] \in {"closed", "hsErr", "cloneErr"} => WellFormed(Lifecycle(c))

\* C1 (amended): an accepted connection or datagram whose handshake retrieval
\* (and, for a datagram, socket clone) succeeded receives on_open once, then
\* on_request calls, then on_close once, and is not abandoned before on_close;
\* one whose retrieval failed, like one whose accept failed, receives no hook.
C1_Lifecycle ==
  \A c \in Conns :
    /\ cstate[c] = "closed" => WellFormed(Lifecycle(c))
    /\ cstate[c] = "accepted" => InFlight(c) /\ OpenPrefix(Lifecycle(c))
    /\ cstate[c] \notin {"closed", "accepted"} => Lifecycle(c) = <<>>

C1_Witness ==
  \E c, d \in Conns : cstate[c] = "closed" /\ cstate[d] = "hsErr"

ServedOn(l) == {c \in cycleServed : c[1] = l}

\* C2 (as stated): when the reactor is back at the readiness wait after a
\* cycle without error, every listener of the batch has seen would-block and
\* has had exactly as many on_open/on_close pairs as it had pending
\* connections when poll returned.
C2_DrainExactlyK ==
  (engine = "mio" /\ mainPc = "poll") =>
    \A l \in batch :
      /\ l \in wb
      /\ Cardinality(ServedOn(l)) = Cardinality({c \in snap : c[1] = l})

\* C2 (amended): when the reactor is back at the readiness wait after a cycle
\* without error, every listener of the batch has seen would-block, and the
\* connections it served in the cycle are exactly the K pending when poll
\* returned plus those that arrived on it before its would-block; none of the
\* K is left unaccepted.
C2_Drain ==
  (engine = "mio" /\ mainPc = "poll") =>
    \A l \in batch :
      /\ l \in wb
      /\ ServedOn(l) = {c \in snap \cup late : c[1] = l}
      /\ \A c \in ServedOn(l) : WellFormed(Lifecycle(c))

C2_Witness ==
  /\ engine = "mio"
  /\ mainPc = "poll"
  /\ \E l \in batch : Cardinality({c \in snap : c[1] = l}) = 2
  /\ late # {}
  /\ snap \cup late = cycleServed

\* the state of the k-th connection of listener l; "none" if l is not bound
StateOf(c) == IF c \in Conns THEN cstate[c] ELSE "none"

\* a listener with a pending connection has an undelivered event, an event
\* in the rest of the batch, or is being drained
NoStall ==
  (engine = "mio" /\ mainPc # "done") =>
    \A l \in Listeners :
      pending[l] # <<>> =>
        \/ Token(l) \in ready
        \/ Token(l) \in RangeOf(events)
        \/ curL = l

\* C3: under edge-triggered notification no listener is left with a pending
\* connection and no event to come, and every connection that becomes pending
\* is eventually accepted and closed, unless run returns a fatal error.
C3_NoMissedWakeup ==
  /\ []NoStall
  /\ \A c \in (1..MaxListeners) \X (1..MaxConns) :
       (StateOf(c) = "pending")
         ~> (StateOf(c) = "closed" \/ runResult # NoResult)

C3_Witness ==
  /\ engine = "mio"
  /\ Len(kinds) = 2
  /\ \E c \in late : cstate[c] = "closed"
  /\ \E c \in Conns : cstate[c] = "closed" /\ c \notin snap \cup late

\* C4 (as stated): once a worker is done with a failed connection, the failure
\* is on the error queue's log exactly once and the worker is still running
\* (checked on the runs in which run spawned every worker).
C4_FailureReportedWorkerContinues ==
  (IsThread /\ runResult[1] # "clone") =>
    \A c \in Conns :
      (Failed(c) /\ wconn[c[1]] # c) =>
        /\ Cardinality({i \in DOMAIN sent : sent[i][2] = c}) = 1
        /\ wpc[c[1]] # "panicked"

\* C5 (as stated): the value run returns is the first error enqueued on the
\* shared error queue.
C5_ReturnsFirstEnqueued ==
  (IsThread /\ mainPc \in {"return", "done"}) =>
    /\ sent # <<>>
    /\ runResult = sent[1]

\* C6 (as stated): after run has returned with the first error of the queue,
\* every spawned worker is still running.
C6_WorkersSurviveReturn ==
  (IsThread /\ mainPc = "done" /\ sent # <<>> /\ runResult = sent[1]) =>
    \A w \in Workers : wpc[w] \notin {"unspawned", "panicked"}

\* C7: at most one worker executes Factory.connection_made at a time, and it
\* is the holder of the factory guard.
C7_MutualExclusion ==
  /\ Cardinality({w \in Workers : wpc[w] = "connection_made"}) <= 1
  /\ \A w \in Workers : wpc[w] = "connection_made" => lockHolder = w

C7_Witness ==
  \E w, v \in Workers :
    /\ wpc[w] = "connection_made"
    /\ wpc[v] = "lock"
    /\ kinds[w] # kinds[v]

\* C8: the guard is held only during connection_made: no worker inside a
\* handler hook holds it, and a worker waiting for the guard while others are
\* inside hooks can acquire it unless some worker is in connection_made.
C8_GuardScope ==
  /\ \A w \in Workers : wpc[w] \in HookPcs => lockHolder # w
  /\ \A w \in Workers :
       (wpc[w] = "lock" /\ \A v \in Workers : wpc[v] # "connection_made")
         => ENABLED WLock(w)

C8_Witness ==
  \E u, v \in Workers :
    /\ u # v
    /\ wpc[u] \in HookPcs
    /\ wpc[v] \in HookPcs
    /\ kinds[u] # kinds[v]

\* C9: the reactor never returns would-block, which only ends the drain of
\* the listener; an accept error, a poll error or a handshake failure is what
\* run returns, at once; after run has returned no accept and no hook happens.
C9_ReactorErrors ==
  /\ [](engine = "mio" =>
          /\ runResult[1] \in {"none", "accept", "handshake", "poll"}
          /\ runResult # NoResult <=> mainPc = "done"
          /\ \A c \in Conns :
               /\ cstate[c] = "acceptErr" => runResult = <<"accept", c>>
               /\ cstate[c] = "hsErr" => runResult = <<"handshake", c>>)
  /\ [][(engine = "mio" /\ mainPc = "accept" /\ pending[curL] = <<>>)
          => (mainPc' \in {"accept", "event"} /\ runResult' = NoResult)]_vars
  /\ [][(engine = "mio" /\ mainPc = "done")
          => UNCHANGED <<hooks, pending, cstate, mainPc, runResult>>]_vars

C9_Witness ==
  /\ engine = "mio"
  /\ mainPc = "done"
  /\ runResult[1] = "accept"
  /\ wb # {}
  /\ \E l \in Listeners : pending[l] # <<>>

\* C10: run never returns a success value: a thread engine's run returns only
\* an error and stays in its receive while the queue is empty, whatever the
\* number of listeners and of live workers; the reactor's run returns only an
\* error.
C10_NeverOk ==
  /\ [](runResult # OkResult)
  /\ [](mainPc \in {"return", "done"} =>
          runResult[1] \in {"accept", "handshake", "recv", "udpclone", "clone",
                            "poll"})
  /\ [][(IsThread /\ mainPc = "recv" /\ errq = <<>>) => mainPc' = "recv"]_vars

C10_Witness ==
  /\ IsThread
  /\ mainPc = "recv"
  /\ errq = <<>>
  /\ \A w \in Workers : wpc[w] = "accept"
  /\ \E c \in Conns : cstate[c] = "closed"

\* the number of times hook h has been invoked, over all connections
RECURSIVE HookCount(_, _)
HookCount(h, S) ==
  IF S = {} THEN 0
  ELSE LET c == CHOOSE x \in S : TRUE
       IN Len(SelectSeq(hooks[c], LAMBDA e : e = h)) + HookCount(h, S \ {c})

\* C11: in a thread engine, while no I/O failure has happened, no error is
\* enqueued, run has not returned and cannot return, and no connection has
\* received more than one on_open or on_close; and under fair scheduling,
\* unless an I/O failure happens, the N connections that have arrived, on
\* whichever listeners and in whatever interleaving, again and again have all
\* been served: exactly N on_open and N on_close have occurred.
C11_ServiceLiveness ==
  /\ []((IsThread /\ NoIoFailure) =>
          /\ sent = <<>>
          /\ errq = <<>>
          /\ runResult = NoResult
          /\ mainPc \notin {"return", "done"}
          /\ ~ENABLED RunRecv
          /\ ~ENABLED RunReturn
          /\ \A c \in Conns :
               /\ HookCount("on_open", {c}) <= 1
               /\ HookCount("on_close", {c}) <= 1)
  /\ []<>(\/ ~NoIoFailure
          \/ /\ HookCount("on_open", Conns) = TotalArrived
             /\ HookCount("on_close", Conns) = TotalArrived)

C11_Witness ==
  /\ IsThread
  /\ NoIoFailure
  /\ Len(kinds) = 2
  /\ mainPc = "recv"
  /\ TotalArrived = MaxConns
  /\ \A l \in Listeners : arrived[l] >= 1
  /\ HookCount("on_close", Conns) = MaxConns

\* C12: bind binds eagerly: a bind call naming an address the builder already
\* holds returns an error, and a failed bind adds no listener; a successful
\* bind adds exactly one listener, for the address it names, and keeps every
\* listener bound before; the engine build produces has exactly the listeners
\* of the successful binds of its chain, each address once.
C12_BindEager ==
  /\ [](\A i, j \in DOMAIN builder : i # j => builder[i] # builder[j])
  /\ [][(lastBind' # lastBind /\ lastBind'[3] # "none") =>
          LET l == <<lastBind'[1], lastBind'[2]>> IN
            /\ l \in RangeOf(builder) => lastBind'[3] = "err"
            /\ lastBind'[3] = "err" =>
                 /\ mainPc' = "failed"
                 /\ RangeOf(builder') \subseteq RangeOf(builder)
            /\ lastBind'[3] = "ok" =>
                 /\ mainPc' = "builder"
                 /\ Len(builder') = Len(builder) + 1
                 /\ RangeOf(builder') = RangeOf(builder) \cup {l}]_vars
  /\ [][(mainPc = "builder" /\ mainPc' \in {"spawn", "poll"}) =>
          kinds' = KindsOf(builder)]_vars

C12_Witness ==
  /\ engine = "daytime"
  /\ mainPc = "failed"
  /\ lastBind = <<"udp", 1, "err", 1>>

\* C13 (as stated): after a chain in which the first bind succeeded and a
\* second bind of the identical address failed, the first listener remains
\* bound and an engine can be built from it.
C13_FirstListenerSurvives ==
  (mainPc = "failed" /\ lastBind[3] = "err" /\ lastBind[2] <= lastBind[4]) =>
    /\ <<lastBind[1], lastBind[2]>> \in RangeOf(builder)
    /\ ENABLED Build

\* C13 (amended): a failed bind has consumed the builder: the builder and the
\* listeners it held, the first one included, are dropped, and no engine can
\* be built from that chain; the caller can only start a new chain, in which
\* the address of the first listener can be bound again.
C13_FailedBindDropsBuilder ==
  /\ [](mainPc = "failed" =>
          /\ builder = <<>>
          /\ ~ENABLED Build
          /\ ENABLED NewBuilder)
  /\ [][mainPc = "failed" =>
          (mainPc' = "builder" /\ builder' = <<>> /\ lastBind' = NoBind)]_vars
  /\ []((mainPc = "builder" /\ builder = <<>>) => ENABLED Bind("tcp", 1))

C13_Witness ==
  /\ engine = "mio"
  /\ mainPc = "failed"
  /\ lastBind = <<"tcp", 1, "err", 1>>
  /\ builder = <<>>

\* C14 (as stated): the Handshake on_open receives for a stream connection
\* has the client's address as peer address and the address of the listener
\* that accepted it as local address.
C14_LocalIsListenerAddr ==
  \A c \in Conns :
    (kinds[c[1]] = "tcp" /\ shakes[c] # NoShake) =>
      shakes[c] = <<"tcp", ClientAddr(c), ListenerAddr(c[1])>>

\* C14 (amended): the Handshake is built after the accept and before any
\* handler hook of the connection, and on_open receives it unchanged; its
\* peer address is the client's address and its local address is the local
\* address of the accepted stream: the port is the accepting listener's, the
\* IP is the listener's unless the listener is bound to the wildcard address,
\* where it is the address the client connected to; it is never the address
\* of another listener of the engine.
C14_Handshake ==
  /\ [](\A c \in Conns :
          /\ shakes[c] # NoShake <=> "on_open" \in RangeOf(hooks[c])
          /\ (kinds[c[1]] = "tcp" /\ shakes[c] # NoShake) =>
               /\ shakes[c][1] = "tcp"
               /\ shakes[c][2] = ClientAddr(c)
               /\ shakes[c][3] = Stream(c)[2]
               /\ shakes[c][3][2] = PortOf(c[1])
               /\ BindIp(c[1]) # "0.0.0.0" => shakes[c][3] = ListenerAddr(c[1])
               /\ \A l \in Listeners \ {c[1]} :
                    kinds[l] = "tcp" => shakes[c][3] # ListenerAddr(l))
  /\ [](\A w \in DOMAIN hs :
          hs[w] # NoShake =>
            LET c == IF w = 0 THEN cur ELSE wconn[w] IN
              /\ c \in Conns
              /\ cstate[c] = "accepted"
              /\ Lifecycle(c) = <<>>)
  /\ [][\A c \in DOMAIN shakes :
          shakes'[c] # shakes[c] =>
            /\ shakes[c] = NoShake
            /\ shakes'[c] = hs[IF IsThread THEN c[1] ELSE 0]]_vars

C14_Witness ==
  /\ Len(kinds) = 2
  /\ cstate[<<1, 2>>] = "closed"
  /\ shakes[<<1, 2>>] = <<"tcp", ClientAddr(<<1, 2>>), <<"10.0.0.1", 1>>>>
  /\ cstate[<<2, 1>>] = "closed"
  /\ shakes[<<2, 1>>] = <<"tcp", ClientAddr(<<2, 1>>), ListenerAddr(2)>>

\* what the daytime engine does for a stream connection it serves
DaytimeStreamEvents ==
  <<"connection_made", "on_open", "on_request", "write", "on_close", "drop">>

IsPrefix(s, t) == Len(s) <= Len(t) /\ \A i \in DOMAIN s : s[i] = t[i]

\* C15 (as stated): in the daytime engine every accepted stream connection
\* the engine has finished with, one whose handshake retrieval failed
\* included, has had on_request exactly once, between on_open and on_close,
\* with one write, and its stream was closed after on_close.
C15_RequestOnceAlways ==
  engine = "daytime" =>
    \A c \in Conns :
      (kinds[c[1]] = "tcp" /\ cstate[c] \in {"closed", "hsErr"}) =>
        hooks[c] = DaytimeStreamEvents

\* C15 (amended): in the daytime engine an accepted stream connection whose
\* handshake retrieval succeeded has on_request exactly once, between on_open
\* and on_close, with exactly one write, made in on_request, and its stream
\* is closed only after on_close; while the connection is being served the
\* stream is open.  A stream whose handshake retrieval failed is closed
\* without any hook and without a write.
C15_RequestOnce ==
  engine = "daytime" =>
    \A c \in Conns :
      kinds[c[1]] = "tcp" =>
        /\ cstate[c] = "closed" => hooks[c] = DaytimeStreamEvents
        /\ cstate[c] = "accepted" =>
             /\ IsPrefix(hooks[c], DaytimeStreamEvents)
             /\ "drop" \notin RangeOf(hooks[c])
        /\ cstate[c] = "hsErr" => hooks[c] = <<"drop">>

C15_Witness ==
  /\ engine = "daytime"
  /\ \E c, d \in Conns :
       /\ kinds[c[1]] = "tcp"
       /\ cstate[c] = "closed"
       /\ kinds[d[1]] = "tcp"
       /\ cstate[d] = "accepted"
       /\ hooks[d] = <<"connection_made", "on_open", "on_request", "write">>

\* the number of connection_made calls made for c
MadeFor(c) == HookCount("connection_made", {c})

\* C16 (as stated, on the thread-per-listener discard engine): for every
\* connection the engine is done with, connection_made was invoked exactly
\* once if its accept succeeded and never if its accept failed.
C16_MadeOncePerAccepted ==
  engine = "sync" =>
    \A c \in Conns :
      /\ cstate[c] \in {"closed", "hsErr"} => MadeFor(c) = 1
      /\ (cstate[c] = "acceptErr" /\ ~InFlight(c)) => MadeFor(c) = 0

\* C17 (as stated): a single callable used as a Handler runs as on_request
\* and as no other hook; a pair of callables runs as (on_open, on_close).
C17_AdapterShapesAsStated ==
  \A i \in DOMAIN calls :
    LET h == calls[i][1]
        f == calls[i][2]
    IN /\ adapter = "fn" => (f = IF h = "on_request" THEN 1 ELSE 0)
       /\ adapter = "pair" =>
            (f = IF h = "on_open" THEN 1 ELSE IF h = "on_close" THEN 2 ELSE 0)

\* C17 (amended): in the daytime engine a single callable runs as on_request
\* only and a pair runs as (on_open, on_request), on_close being the empty
\* default; in the discard modules a single callable runs as on_open only,
\* and in discard.rs a pair runs as (on_open, on_close); the other modules
\* implement Handler for no pair.
C17_AdapterShapes ==
  /\ mainPc = "handler" => adapter \in Shapes(engine)
  /\ (adapter = "pair" => engine \in {"daytime", "discard"})
  /\ \A i \in DOMAIN calls :
       LET h == calls[i][1]
           f == calls[i][2]
       IN /\ (engine = "daytime" /\ adapter = "fn") =>
               (f = IF h = "on_request" THEN 1 ELSE 0)
          /\ (engine = "daytime" /\ adapter = "pair") =>
               (f = IF h = "on_open" THEN 1
                    ELSE IF h = "on_request" THEN 2 ELSE 0)
          /\ (engine # "daytime" /\ adapter = "fn") =>
               (f = IF h = "on_open" THEN 1 ELSE 0)
          /\ (engine = "discard" /\ adapter = "pair") =>
               (f = IF h = "on_open" THEN 1 ELSE 2)

C17_Witness ==
  /\ engine = "daytime"
  /\ adapter = "pair"
  /\ calls = <<<<"on_open", 1>>, <<"on_request", 2>>, <<"on_close", 0>>>>

\* the connections the reactor has made a factory or handler call for and
\* has not finished with
Unfinished == {c \in Conns : hooks[c] # <<>> /\ cstate[c] \notin {"closed", "hsErr"}}

\* C18: the reactor handles one connection at a time: at most one connection
\* is accepted and not yet closed, and it is the current one; a connection is
\* accepted, and connection_made or on_open is called for it, only when every
\* connection handled before it has had its on_close; the reactor is not at
\* its readiness wait, nor iterating events, nor accepting, while a
\* connection is between on_open and on_close.
C18_Serialized ==
  /\ [](engine = "mio" =>
          /\ Cardinality({c \in Conns : cstate[c] = "accepted"}) <= 1
          /\ \A c \in Conns :
               cstate[c] = "accepted" =>
                 /\ cur = c
                 /\ mainPc \in {"connection_made", "read_stream", "on_open",
                                 "on_close"}
          /\ mainPc \in {"poll", "event", "accept"} =>
               /\ cur = NoConn
               /\ Unfinished = {})
  /\ [][engine = "mio" =>
          \A c \in DOMAIN cstate :
            (\/ cstate[c] # "accepted" /\ cstate'[c] = "accepted"
             \/ Len(hooks'[c]) > Len(hooks[c]) /\ Lifecycle(c) = <<>>)
              => Unfinished \subseteq {c}]_vars

C18_Witness ==
  /\ engine = "mio"
  /\ mainPc = "on_close"
  /\ cur[1] = 2
  /\ cstate[<<1, 1>>] = "closed"
  /\ pending[1] # <<>>

\* C19: when the reactor takes from the batch an event whose token resolves
\* to no listener of the registry, it accepts nothing, calls neither the
\* factory nor a handler, leaves the registry as it is, does not return, and
\* goes on with the remaining events of the batch.
C19_UnknownTokenIgnored ==
  [][(/\ engine = "mio"
      /\ mainPc = "event"
      /\ events # <<>>
      /\ Head(events) \notin DOMAIN registry
      /\ events' # events) =>
        /\ events' = Tail(events)
        /\ mainPc' = "event"
        /\ UNCHANGED <<registry, arrived, cstate, pending, hooks, shakeVars,
                       runResult, curL, cur, wb, cycleServed>>]_vars

C19_Witness ==
  /\ engine = "mio"
  /\ mainPc = "event"
  /\ Len(events) = 2
  /\ events[1] \notin DOMAIN registry
  /\ events[2] \in DOMAIN registry
  /\ pending[registry[events[2]]] # <<>>

\* C20: once the reactor is built, every listener is registered under a token
\* of its own, which is its key in the registry; the registry holds exactly
\* the listeners given to build and never changes while run executes; the
\* listener the reactor drains for an event is the one registered under the
\* event's token.
C20_Registry ==
  /\ []((engine = "mio" /\ mainPc \notin {"builder", "failed"}) =>
          /\ DOMAIN registry = {Token(l) : l \in Listeners}
          /\ Cardinality(DOMAIN registry) = Len(kinds)
          /\ \A l \in Listeners : registry[Token(l)] = l
          /\ \A t, u \in DOMAIN registry : t # u => registry[t] # registry[u])
  /\ [][(engine = "mio" /\ mainPc \notin {"builder", "failed"}) =>
          /\ registry' = registry
          /\ kinds' = kinds
          /\ (curL' # curL /\ curL' # 0) =>
               /\ events # <<>>
               /\ Head(events) = Token(curL')]_vars

C20_Witness ==
  /\ engine = "mio"
  /\ Len(kinds) = 2
  /\ mainPc = "accept"
  /\ curL = 2
  /\ registry[1] = 2
  /\ cstate[<<1, 1>>] = "closed"

\* C21 (as stated): build hands every bound listener to the engine and run
\* spawns one worker for each of them before it waits on the error queue or
\* returns, also when try_clone fails: once run is past its spawn loop no
\* listener of the engine is without a worker.
C21_OneWorkerPerListener ==
  (IsThread /\ mainPc \in {"recv", "return", "done"}) =>
    /\ Len(kinds) = Len(wpc)
    /\ \A l \in Listeners : wpc[l] # "unspawned"

\* the datagrams of the bound UDP sockets
Datagrams == {c \in Conns : kinds[c[1]] = "udp"}

\* recv_from returned this datagram to the worker
Received(c) == cstate[c] \in {"accepted", "closed", "cloneErr"}

\* everything the daytime worker does for one datagram, in order
DatagramEvents ==
  <<"connection_made", "on_open", "on_request", "write", "on_close", "drop">>

\* the lifecycle half of C22: a received datagram is one connection, with
\* the Handshake and the Sender's destination both the datagram's origin,
\* the calls in order and once each, one datagram at a time per socket
DatagramLifecycle ==
  \A c \in Datagrams :
    /\ IsPrefix(hooks[c], DatagramEvents)
    /\ cstate[c] = "closed" =>
         /\ hooks[c] = DatagramEvents
         /\ shakes[c] = FromUdpAddr(ClientAddr(c))
    /\ (cstate[c] = "accepted" /\ hooks[c] # <<>>) =>
         /\ wconn[c[1]] = c
         /\ senders[c[1]] = NewUdp(UdpSocketOf(c[1]), ClientAddr(c))
         /\ SendDest(senders[c[1]]) = ClientAddr(c)
         /\ shakes[c] # NoShake => shakes[c][2] = SendDest(senders[c[1]])
    /\ cstate[c] # "closed" => hooks[c] # DatagramEvents
    /\ cstate[c] \in {"recvErr", "cloneErr"} => hooks[c] = <<>>
    /\ (Received(c) \/ cstate[c] = "recvErr") =>
         \A k \in 1..(c[2] - 1) :
           /\ cstate[<<c[1], k>>] \in {"closed", "recvErr", "cloneErr"}
           /\ wconn[c[1]] # <<c[1], k>>

\* the failure half of C22: a failed receive or clone the worker is done
\* with is on the error queue's log once and the worker receives again
DatagramFailureReported ==
  \A c \in Datagrams :
    (cstate[c] \in {"recvErr", "cloneErr"} /\ wconn[c[1]] # c) =>
      /\ Cardinality({i \in DOMAIN sent : sent[i][2] = c}) = 1
      /\ wpc[c[1]] # "panicked"

\* C22 (as stated): the daytime datagram worker handles each received
\* datagram as one connection (Handshake of the origin address, Sender bound
\* to that address, connection_made, on_open, on_request, on_close once each
\* and in order, before the next receive), and a receive or clone failure is
\* reported to the error queue after which the worker receives again.
C22_DatagramWorker ==
  engine = "daytime" => (DatagramLifecycle /\ DatagramFailureReported)

\* the engines of the discard protocol
DiscardEngines == {"single", "sync", "mio"}

\* everything a discard engine does for a connection it serves, in order
DiscardEvents == <<"connection_made", "on_open", "drop", "on_close">>

\* where the thread of control that serves c's listener is
PcOf(c) == IF IsThread THEN wpc[c[1]] ELSE mainPc

\* the step invokes hook h for connection c: h is the first entry the step
\* adds to c's log
Appended(c, h) ==
  /\ Len(hooks'[c]) > Len(hooks[c])
  /\ hooks'[c][Len(hooks[c]) + 1] = h

\* C23 (as stated): in the discard engines the accepted stream of a
\* connection that received on_open is released only after on_close: when
\* the release is in the connection's log, on_close is before it.
C23_ReleasedAfterClose ==
  engine \in DiscardEngines =>
    \A c \in Conns :
      ("on_open" \in RangeOf(hooks[c]) /\ "drop" \in RangeOf(hooks[c])) =>
        \E i, j \in DOMAIN hooks[c] :
          i < j /\ hooks[c][i] = "on_close" /\ hooks[c][j] = "drop"

\* C23 (amended): in the discard engines the accepted stream is open while
\* on_open runs and is released as soon as on_open has returned, before
\* on_close is invoked: on_close always runs on a connection whose stream is
\* already closed, and a served connection's log is connection_made, on_open,
\* release, on_close; a stream whose handshake retrieval failed is released
\* without any hook.
C23_ReleasedBeforeClose ==
  /\ [](engine \in DiscardEngines =>
          \A c \in Conns :
            /\ "on_open" \in RangeOf(hooks[c]) =>
                 /\ IsPrefix(<<"connection_made", "on_open", "drop">>, hooks[c])
                 /\ IsPrefix(hooks[c], DiscardEvents)
            /\ "on_open" \notin RangeOf(hooks[c]) =>
                 /\ "on_close" \notin RangeOf(hooks[c])
                 /\ "drop" \in RangeOf(hooks[c]) <=> cstate[c] = "hsErr"
            /\ cstate[c] = "closed" <=> hooks[c] = DiscardEvents
            /\ (InFlight(c) /\ PcOf(c) = "on_close") =>
                 hooks[c] = <<"connection_made", "on_open", "drop">>)
  /\ [][(engine \in DiscardEngines) =>
          \A c \in DOMAIN hooks :
            Appended(c, "on_close") =>
              /\ hooks'[c] = hooks[c] \o <<"on_close">>
              /\ "drop" \in RangeOf(hooks[c])]_vars

C23_Witness ==
  /\ engine = "single"
  /\ mainPc = "on_close"
  /\ hooks[cur] = <<"connection_made", "on_open", "drop">>
  /\ cstate[<<1, 1>>] = "closed"

\* hook h is in the log of connection c
Invoked(c, h) == \E i \in DOMAIN hooks[c] : hooks[c][i] = h

\* the Handshake of connection c: what the engine builds from c's stream or,
\* for a datagram, from its origin address
HandshakeOf(c) ==
  IF kinds[c[1]] = "tcp" THEN ReadStream(Stream(c))
  ELSE FromUdpAddr(ClientAddr(c))

\* C24: in every engine, whenever on_close is about to be invoked or has been
\* invoked for a connection, the handler made for that connection has
\* received on_open before, with that connection's own Handshake: a handler
\* that stored it in on_open finds it (and not another connection's) in
\* on_close.
C24_CloseFindsHandshake ==
  /\ [][(hooks' # hooks) =>
          \A c \in DOMAIN hooks :
            Appended(c, "on_close") =>
              /\ Invoked(c, "on_open")
              /\ ~Invoked(c, "on_close")
              /\ shakes[c] # NoShake
              /\ shakes[c] = HandshakeOf(c)
              /\ shakes'[c] = shakes[c]]_vars
  /\ [](\A c \in Conns :
          /\ shakes[c] # NoShake <=> Invoked(c, "on_open")
          /\ shakes[c] # NoShake => shakes[c] = HandshakeOf(c)
          /\ Invoked(c, "on_close") => shakes[c] # NoShake)

\* two handlers of two listeners are both about to run on_close, each holding
\* its own connection's Handshake, after an earlier connection was closed
C24_Witness ==
  /\ engine = "sync"
  /\ Len(kinds) = 2
  /\ wpc[1] = "on_close"
  /\ wpc[2] = "on_close"
  /\ shakes[wconn[1]] # shakes[wconn[2]]
  /\ \E c \in Conns : cstate[c] = "closed"

\* the connection attempts run has taken from incoming()
Taken(c) == cstate[c] \notin {"none", "pending"}

\* C25: the single-listener engine handles connections strictly one after
\* another; the first accept error or handshake-retrieval error is what run
\* returns, with no on_open or on_close for the failing connection and no
\* later connection accepted; run never returns a success value.
C25_SingleListener ==
  engine = "single" =>
    /\ runResult # OkResult
    /\ runResult # NoResult <=> mainPc = "done"
    /\ runResult[1] \in {"none", "accept", "handshake"}
    /\ \A c \in Conns :
         /\ Taken(c) =>
              \A k \in 1..(c[2] - 1) : cstate[<<1, k>>] = "closed"
         /\ cstate[c] = "accepted" => cur = c /\ InFlight(c)
         /\ cstate[c] = "closed" => Lifecycle(c) = <<"on_open", "on_close">>
         /\ Failed(c) =>
              /\ Lifecycle(c) = <<>>
              /\ \A k \in (c[2] + 1)..MaxConns : ~Taken(<<1, k>>)
              /\ \/ mainPc = "done" /\ runResult[2] = c
                 \/ /\ cstate[c] = "acceptErr"
                    /\ cur = c
                    /\ mainPc \in {"connection_made", "read_stream"}
         /\ cstate[c] = "acceptErr" => runResult[1] \in {"none", "accept"}
         /\ cstate[c] = "hsErr" => runResult = <<"handshake", c>>
    /\ mainPc = "done" => \E c \in Conns : Failed(c) /\ runResult[2] = c

\* run has returned the accept error of the second connection, after serving
\* the first, and a third connection that had arrived stays unaccepted
C25_Witness ==
  /\ engine = "single"
  /\ mainPc = "done"
  /\ cstate[<<1, 1>>] = "closed"
  /\ cstate[<<1, 2>>] = "acceptErr"
  /\ runResult = <<"accept", <<1, 2>>>>
  /\ cstate[<<1, 3>>] = "pending"

====
